---------------------------- MODULE Spec2Model ----------------------------
(***************************************************************************)
(* The issue-triage pipeline of autoTriage: services/intake_service.py     *)
(* (orchestrator, mapper, validator, planner, apply step),                 *)
(* services/github_service.py (tracker collaborator) and                   *)
(* services/llm_service.py (classifier, assessor, selector).               *)
(*                                                                         *)
(* Python strings that the code lower-cases, slices or searches are        *)
(* sequences of one-character strings, so that str.lower(), `a in b` and   *)
(* s[1:] are computed and not assumed.  Python None is the one-element     *)
(* sequence <<"None">>, which is no string of characters.                  *)
(***************************************************************************)
EXTENDS Integers, Sequences, FiniteSets, TLC

\* ------------------------------------------------------------------ bounds
\* Issues 1..NumIssues exist in the tracker; NumIssues + 1 is a number the
\* tracker cannot fetch.
NumIssues == 2
\* Longest explicit issue_numbers list.
MaxList == 2
\* Most tracker calls that fail while the changes of one issue are applied.
MaxFaults == 1

\* ------------------------------------------------------- python strings
None == <<"None">>

\* The cased letters of the modelled strings and their lower-case forms.
LowerOf ==
    "A" :> "a" @@ "B" :> "b" @@ "C" :> "c" @@ "D" :> "d" @@ "E" :> "e" @@ "F" :> "f" @@
    "G" :> "g" @@ "H" :> "h" @@ "I" :> "i" @@ "J" :> "j" @@ "K" :> "k" @@ "L" :> "l" @@
    "M" :> "m" @@ "N" :> "n" @@ "O" :> "o" @@ "P" :> "p" @@ "Q" :> "q" @@ "R" :> "r" @@
    "S" :> "s" @@ "T" :> "t" @@ "U" :> "u" @@ "V" :> "v" @@ "W" :> "w" @@ "X" :> "x" @@
    "Y" :> "y" @@ "Z" :> "z"

\* str.lower() on one character.
LowerChar(c) == IF c \in DOMAIN LowerOf THEN LowerOf[c] ELSE c

\* str.lower()
Lower(s) == <<>> \o [i \in 1..Len(s) |-> LowerChar(s[i])]

\* `sub in s` for two strings.
Contains(sub, s) ==
    \E i \in 0..(Len(s) - Len(sub)) :
        \A j \in 1..Len(sub) : s[i + j] = sub[j]

\* s[1:]
Tail1(s) == IF Len(s) = 0 THEN s ELSE SubSeq(s, 2, Len(s))

\* s.startswith("@")
StartsWithAt(s) == Len(s) > 0 /\ s[1] = "@"

\* Elements of a list, and list membership.
Range(q) == {q[i] : i \in 1..Len(q)}

RECURSIVE FilterSeq(_, _)
\* [x for x in q if x in keep]
FilterSeq(q, keep) ==
    IF q = <<>> THEN <<>>
    ELSE IF Head(q) \in keep THEN <<Head(q)>> \o FilterSeq(Tail(q), keep)
         ELSE FilterSeq(Tail(q), keep)

\* --------------------------------------------------------------- literals
s_bug == <<"b","u","g">>
s_feature == <<"f","e","a","t","u","r","e">>
s_documentation == <<"d","o","c","u","m","e","n","t","a","t","i","o","n">>
s_question == <<"q","u","e","s","t","i","o","n">>
s_enhancement == <<"e","n","h","a","n","c","e","m","e","n","t">>
s_type_ == <<"t","y","p","e",":">>
s_priority_ == <<"p","r","i","o","r","i","t","y",":">>
s_P1 == <<"P","1">>
s_P2 == <<"P","2">>
s_P3 == <<"P","3">>
s_P4 == <<"P","4">>
s_critical == <<"c","r","i","t","i","c","a","l">>
s_high == <<"h","i","g","h">>
s_low == <<"l","o","w">>
s_minor == <<"m","i","n","o","r">>
s_copilot_fixable == <<"c","o","p","i","l","o","t","-","f","i","x","a","b","l","e">>
s_copilot == <<"c","o","p","i","l","o","t">>
\* ['p0', 'p1', 'p2', 'p3', 'p4', 'priority']
PriorityPatterns ==
    {<<"p","0">>, <<"p","1">>, <<"p","2">>, <<"p","3">>, <<"p","4">>, <<"p","r","i","o","r","i","t","y">>}

\* ['p0', 'p1', 'p2', 'p3', 'p4', 'priority', 'triage', 'triaged']
TriagePatterns == PriorityPatterns \cup {<<"t","r","i","a","g","e">>, <<"t","r","i","a","g","e","d">>}

\* any(pattern in label_lower for pattern in [...priority patterns...])
IsPriorityLabel(label) ==
    \E label_lower \in {Lower(label)} :
        \E pattern \in PriorityPatterns : Contains(pattern, label_lower)

\* any(pattern in label_lower for pattern in [...triage patterns...])
IsTriageLabel(label) ==
    \E label_lower \in {Lower(label)} :
        \E pattern \in TriagePatterns : Contains(pattern, label_lower)

\* ------------------------------------------------- Label Taxonomy Mapper
ExactMatches_none(repo_label_names, lowered, search_term) == <<>>

\* [label_name for label_name in repo_label_names if label_name.lower() == search_term];
\* lowered is the list of label_name.lower().
ExactMatches(repo_label_names, lowered, search_term) ==
    LET at == SelectSeq([i \in 1..Len(lowered) |-> i],
                        LAMBDA i : lowered[i] = search_term)
    IN  [k \in 1..Len(at) |-> repo_label_names[at[k]]]

\* [label_name for label_name in repo_label_names if search_term in label_name.lower()]
PartialMatches(repo_label_names, lowered, search_term) ==
    LET at == SelectSeq([i \in 1..Len(lowered) |-> i],
                        LAMBDA i : Contains(search_term, lowered[i]))
    IN  [k \in 1..Len(at) |-> repo_label_names[at[k]]]

RECURSIVE FindMatching(_, _, _)
\* The loop over search_terms: exact matches of the term, else labels that
\* contain it, and the first term with any match ends the search.
FindMatching(repo_label_names, lowered, search_terms) ==
    IF search_terms = <<>> THEN <<>>
    ELSE LET search_term == Head(search_terms)
             exact == ExactMatches(repo_label_names, lowered, search_term)
             matches == IF exact # <<>> THEN exact
                        ELSE PartialMatches(repo_label_names, lowered, search_term)
         IN  IF matches # <<>> THEN matches
             ELSE FindMatching(repo_label_names, lowered, Tail(search_terms))

\* _find_matching_labels
_find_matching_labels(repo_label_names, search_terms) ==
    CHOOSE matches \in {FindMatching(repo_label_names, lowered, search_terms) :
                        lowered \in {[i \in 1..Len(repo_label_names) |->
                                         Lower(repo_label_names[i])]}} : TRUE

\* type_search_terms of _map_to_repository_labels
TypeSearchTerms(issue_type) ==
    LET t == Lower(issue_type)
    IN  IF t = s_feature THEN <<s_enhancement, s_feature, s_type_ \o t>>
        ELSE IF t = s_bug THEN <<s_bug, s_type_ \o t>>
        ELSE IF t = s_documentation THEN <<s_documentation, <<"d","o","c","s">>, s_type_ \o t>>
        ELSE IF t = s_question THEN <<s_question, <<"h","e","l","p"," ","w","a","n","t","e","d">>, s_type_ \o t>>
        ELSE <<t, s_type_ \o t>>

\* priority_search_terms of _map_to_repository_labels
PrioritySearchTerms(priority) ==
    <<Lower(priority), s_priority_ \o Lower(priority),
      <<"p">> \o Lower(Tail1(priority)), <<"p","r","i","o",":">> \o Lower(priority)>>
    \o (IF priority = s_P1 THEN <<s_critical, <<"u","r","g","e","n","t">>, s_high, <<"s","e","v","e","r","e">>>>
        ELSE IF priority = s_P2 THEN <<s_high, <<"i","m","p","o","r","t","a","n","t">>>>
        ELSE IF priority = s_P3 THEN <<<<"m","e","d","i","u","m">>, <<"n","o","r","m","a","l">>>>
        ELSE IF priority = s_P4 THEN <<s_low, s_minor>>
        ELSE <<>>)

\* mapped[:1]
FirstOf(q) == IF q = <<>> THEN <<>> ELSE <<Head(q)>>

\* _map_to_repository_labels raises (None has no lower(), None[1:] is a
\* TypeError) when the repository has labels and a field is None.
MapRaises(repo_labels, issue_type, priority) ==
    repo_labels # <<>> /\ (issue_type = None \/ priority = None)

_map_to_repository_labels_generic(repo_labels, issue_type, priority) ==
    LET type_mapping == _find_matching_labels(repo_labels, TypeSearchTerms(issue_type))
        priority_mapping == _find_matching_labels(repo_labels, PrioritySearchTerms(priority))
    IN  (IF type_mapping = <<>> THEN <<s_type_ \o issue_type>> ELSE FirstOf(type_mapping))
        \o (IF priority_mapping = <<>> THEN <<s_priority_ \o priority>>
            ELSE FirstOf(priority_mapping))

\* repo_labels is the list of label names get_repository_labels returned,
\* in the tracker's order.
_map_to_repository_labels(repo_labels, issue_type, priority) ==
    IF repo_labels = <<>>
    THEN <<s_type_ \o issue_type, s_priority_ \o priority>>
    ELSE FirstOf(_find_matching_labels(repo_labels, TypeSearchTerms(issue_type)))
         \o FirstOf(_find_matching_labels(repo_labels, PrioritySearchTerms(priority)))

\* ------------------------------------------------ Classification Validator
\* 0.7, 0.5 and 0.8 in hundredths.
ConfidenceThreshold == 70
FallbackConfidence == 50
DefaultConfidence == 80

\* A confidence is a number of hundredths, or something `<` cannot compare
\* with a float (a JSON string, null); AbsentConfidence is a key the JSON
\* object does not have.
Num(v) == [present |-> TRUE, num |-> TRUE, v |-> v]
NotANumber == [present |-> TRUE, num |-> FALSE, v |-> 0]
AbsentConfidence == [present |-> FALSE, num |-> FALSE, v |-> 0]

validate_labels_accepting(repo_labels, proposed_labels) ==
    [valid |-> proposed_labels, invalid |-> <<>>]

\* GitHubService.validate_labels without the suggestions, which only feed
\* the warning text.
validate_labels(repo_labels, proposed_labels) ==
    [valid |-> FilterSeq(proposed_labels, Range(repo_labels)),
     invalid |-> FilterSeq(proposed_labels, Range(proposed_labels) \ Range(repo_labels))]

\* What validate_labels gets from get_repository_labels when the read of
\* the labels throws an exception that is no GithubException (the one kind
\* get_repository_labels catches): the exception, in place of a label list.
Unreadable == <<<<"Unreadable">>>>

ValidationRaises_never(repo_labels, classification) == FALSE

\* The try block of _validate_classification throws: in validate_labels, or
\* in the comparison of a confidence that is no number with 0.7.
ValidationRaises(repo_labels, classification) ==
    repo_labels = Unreadable \/ ~classification.confidence.num

\* Returns the validation result and the classification as the validator
\* leaves it.  An exception inside the try block keeps what was assigned
\* before it was thrown.
_validate_classification(repo_labels, classification) ==
    LET label_validation == validate_labels(repo_labels, classification.suggested_labels)
        bad == repo_labels # Unreadable /\ label_validation.invalid # <<>>
        labels1 == IF bad THEN label_validation.valid ELSE classification.suggested_labels
        w1 == IF bad THEN <<"Invalid labels">> ELSE <<>>
        raises == ValidationRaises(repo_labels, classification)
        low == ~raises /\ classification.confidence.v < ConfidenceThreshold
        w2 == IF low THEN w1 \o <<"Low confidence">> ELSE w1
        a == classification.suggested_assignee
        assignee1 == IF ~raises /\ a # None /\ StartsWithAt(a) THEN Tail1(a) ELSE a
    IN  [validation |-> [valid |-> ~bad /\ ~low /\ ~raises,
                         warnings |-> w2,
                         errors |-> IF raises THEN <<"Validation error">> ELSE <<>>],
         classification |-> [classification EXCEPT !.suggested_labels = labels1,
                                                   !.suggested_assignee = assignee1]]

\* ------------------------------------------------------- Mutation Planner
\* The comment of the plan is built from the rationale fields; the comment
\* of the apply step from classification.reason.  Both are kept as the
\* template that produced them.
PlanComment == <<"AI Decision Reasoning: rationale">>
ApplyComment == <<"AI Decision Reasoning: reason">>

_generate_tool_calls_humans_only(classification) ==
    LET labels_to_apply ==
            classification.suggested_labels
            \o (IF classification.is_copilot_fixable THEN <<s_copilot_fixable>> ELSE <<>>)
        a == classification.suggested_assignee
    IN  (IF labels_to_apply # <<>>
         THEN <<[tool |-> "github_apply_labels",
                 issue_number |-> classification.issue_number,
                 labels |-> labels_to_apply]>>
         ELSE <<>>)
        \o (IF a # None /\ a # <<>> /\ ~classification.is_copilot_fixable
            THEN <<[tool |-> "github_assign_issue",
                    issue_number |-> classification.issue_number,
                    assignee |-> a]>>
            ELSE <<>>)
        \o <<[tool |-> "github_add_comment",
              issue_number |-> classification.issue_number,
              comment |-> PlanComment]>>

_generate_tool_calls(classification) ==
    LET labels_to_apply ==
            classification.suggested_labels
            \o (IF classification.is_copilot_fixable THEN <<s_copilot_fixable>> ELSE <<>>)
        a == classification.suggested_assignee
        assignee == IF StartsWithAt(a) THEN Tail1(a) ELSE a
    IN  (IF labels_to_apply # <<>>
         THEN <<[tool |-> "github_apply_labels",
                 issue_number |-> classification.issue_number,
                 labels |-> labels_to_apply]>>
         ELSE <<>>)
        \o (IF a # None /\ a # <<>>
            THEN <<[tool |-> "github_assign_issue",
                    issue_number |-> classification.issue_number,
                    assignee |-> assignee]>>
            ELSE <<>>)
        \o <<[tool |-> "github_add_comment",
              issue_number |-> classification.issue_number,
              comment |-> PlanComment]>>

\* ------------------------------------------------- tracker collaborator
\* A tracker call either succeeds or raises GithubException, the one failure
\* the service catches at the point of call.  Every outcome carries the
\* number of calls that failed (faults).
\*
\* GitHubService.set_priority_label with remove_existing = True, on an issue
\* that carries the label set cur.  The outcomes: the fetch of the issue
\* fails; a remove_from_labels fails after some of the labels to remove were
\* removed; add_to_labels fails; all succeed.
set_priority_label_appending(cur, priority) ==
    {[labels |-> cur, ok |-> FALSE, faults |-> 1],
     [labels |-> cur \cup {priority}, ok |-> TRUE, faults |-> 0]}

set_priority_label(cur, priority) ==
    LET priority_labels_to_remove == {l \in cur : IsPriorityLabel(l)}
    IN  {[labels |-> cur, ok |-> FALSE, faults |-> 1]}
        \cup {[labels |-> cur \ removed, ok |-> FALSE, faults |-> 1] :
                 removed \in (SUBSET priority_labels_to_remove) \ {priority_labels_to_remove}}
        \cup {[labels |-> cur \ priority_labels_to_remove, ok |-> FALSE, faults |-> 1]}
        \cup {[labels |-> (cur \ priority_labels_to_remove) \cup {priority}, ok |-> TRUE,
               faults |-> 0]}

\* GitHubService.apply_labels
apply_labels(cur, labels) ==
    {[labels |-> cur, ok |-> FALSE, faults |-> 1],
     [labels |-> cur \cup Range(labels), ok |-> TRUE, faults |-> 0]}

\* GitHubService.assign_issue
assign_issue(cur, assignee) ==
    {[assignees |-> cur, ok |-> FALSE, faults |-> 1],
     [assignees |-> cur \cup {assignee}, ok |-> TRUE, faults |-> 0]}

\* GitHubService.add_comment; cur is the number of triage comments.
add_comment(cur, comment) ==
    {[comments |-> cur, ok |-> FALSE, faults |-> 1],
     [comments |-> cur + 1, ok |-> TRUE, faults |-> 0]}

RECURSIVE SetPriorityLabels(_, _)
\* for priority_label in priority_labels:
\*     results['labels'] = results['labels'] and self.set_priority_label(...)
\* st is [labels, ok, faults, calls]; `and` does not evaluate its right
\* operand once results['labels'] is False.
SetPriorityLabels(st, priority_labels) ==
    IF priority_labels = <<>> THEN {st}
    ELSE IF ~st.ok THEN SetPriorityLabels(st, Tail(priority_labels))
    ELSE UNION {SetPriorityLabels(
                    [labels |-> o.labels, ok |-> o.ok,
                     faults |-> st.faults + o.faults,
                     calls |-> st.calls \cup {"set_priority_label"}],
                    Tail(priority_labels)) :
                o \in set_priority_label(st.labels, Head(priority_labels))}

\* The label part of apply_triage_result.
ApplyLabelsStep(cur, labels, remove_existing_priority) ==
    LET priority_labels == SelectSeq(labels, IsPriorityLabel)
        other_labels == SelectSeq(labels, LAMBDA l : ~IsPriorityLabel(l))
        st0 == [labels |-> cur, ok |-> TRUE, faults |-> 0, calls |-> {}]
        afterPriority ==
            IF priority_labels = <<>> THEN {st0}
            ELSE IF remove_existing_priority THEN SetPriorityLabels(st0, priority_labels)
            ELSE {[labels |-> o.labels, ok |-> o.ok, faults |-> o.faults,
                   calls |-> {"apply_labels"}] :
                  o \in apply_labels(cur, priority_labels)}
    IN  IF other_labels = <<>> THEN afterPriority
        ELSE UNION {IF ~st.ok THEN {st}
                    ELSE {[labels |-> o.labels, ok |-> o.ok,
                           faults |-> st.faults + o.faults,
                           calls |-> st.calls \cup {"apply_labels"}] :
                          o \in apply_labels(st.labels, other_labels)} :
                    st \in afterPriority}

\* The assignment part of apply_triage_result, after the label part l.
AssignStep_skipped(l, issue, assignee) ==
    IF assignee # None /\ assignee # <<>> /\ l.ok
    THEN {[assignees |-> o.assignees, ok |-> o.ok, faults |-> o.faults,
           calls |-> {"assign_issue"}] : o \in assign_issue(issue.assignees, assignee)}
    ELSE {[assignees |-> issue.assignees, ok |-> TRUE, faults |-> 0, calls |-> {}]}

AssignStep(l, issue, assignee) ==
    IF assignee # None /\ assignee # <<>>
    THEN {[assignees |-> o.assignees, ok |-> o.ok, faults |-> o.faults,
           calls |-> {"assign_issue"}] : o \in assign_issue(issue.assignees, assignee)}
    ELSE {[assignees |-> issue.assignees, ok |-> TRUE, faults |-> 0, calls |-> {}]}

\* GitHubService.apply_triage_result on an issue in tracker state issue
\* ([labels, assignees, comments]).  assignee and comment are None when not
\* passed; `if labels:` takes None and [] alike, and both are <<>> here.
\* Each outcome is the issue afterwards, the returned results dict, the
\* service methods called and the number of failed calls.
apply_triage_result(issue, labels, assignee, comment, remove_existing_priority) ==
    LET labelOuts ==
            IF labels # <<>>
            THEN ApplyLabelsStep(issue.labels, labels, remove_existing_priority)
            ELSE {[labels |-> issue.labels, ok |-> TRUE, faults |-> 0, calls |-> {}]}
        commentOuts ==
            IF comment # None /\ comment # <<>>
            THEN {[comments |-> o.comments, ok |-> o.ok, faults |-> o.faults,
                   calls |-> {"add_comment"}] : o \in add_comment(issue.comments, comment)}
            ELSE {[comments |-> issue.comments, ok |-> TRUE, faults |-> 0, calls |-> {}]}
    IN  UNION {{[issue |-> [issue EXCEPT !.labels = l.labels, !.assignees = a.assignees,
                                         !.comments = c.comments],
                 results |-> [labels |-> l.ok, assignee |-> a.ok, comment |-> c.ok],
                 calls |-> l.calls \cup a.calls \cup c.calls,
                 faults |-> l.faults + a.faults + c.faults] :
                a \in AssignStep(l, issue, assignee), c \in commentOuts} :
               l \in labelOuts}

\* ---------------------------------------------- triage status and filter
get_triage_status_labels_only(issue, repo_labels) ==
    [needs_labeling |-> ~\E l \in issue.labels : IsTriageLabel(l),
     needs_assignment |-> FALSE]

\* GitHubService.get_triage_status: needs_labeling and needs_assignment.
\* repo_labels is the label list the service holds (empty when it has none);
\* has_bot_triage is computed by the code and read by no caller.
get_triage_status(issue, repo_labels) ==
    LET issue_labels == {Lower(l) : l \in issue.labels}
        repo_triage_labels == {Lower(n) : n \in {m \in Range(repo_labels) : IsTriageLabel(m)}}
    IN  [needs_labeling |->
            IF repo_labels # <<>>
            THEN ~\E label \in issue_labels : label \in repo_triage_labels
            ELSE ~\E label \in issue_labels :
                     \E pattern \in TriagePatterns : Contains(pattern, label),
         needs_assignment |-> issue.assignees = {}]

filter_keeps_all(issue, repo_labels) == ~issue.pull_request

\* The test of filter_untriaged_issues for one issue: pull requests are
\* skipped, and an issue is kept when it needs labeling or assignment.
filter_keeps(issue, repo_labels) ==
    /\ ~issue.pull_request
    /\ LET triage_status == get_triage_status(issue, repo_labels)
       IN  triage_status.needs_labeling \/ triage_status.needs_assignment

\* GitHubService.filter_untriaged_issues
filter_untriaged_issues(issues, repo_labels) ==
    SelectSeq(issues, LAMBDA issue : filter_keeps(issue, repo_labels))

\* ------------------------------------------------- language-model service
\* What _call_llm hands back: None (client missing, or the call threw), or
\* text.  Text is not JSON ("text"), JSON that is no object ("nonobject": a
\* list, a number, null), or a JSON object ("object") whose fields are a
\* value, None for JSON null, or Absent.
Absent == <<"Absent">>

\* dict.get(key, default)
Get(parsed, key, default) == IF parsed[key] = Absent THEN default ELSE parsed[key]

\* parsed.get("confidence", default)
GetConfidence(parsed, default) ==
    IF parsed.confidence.present THEN parsed.confidence ELSE default

s_error == <<"e","r","r","o","r">>
s_broken == <<"b","r","o","k","e","n">>
s_crash == <<"c","r","a","s","h">>
s_typo == <<"t","y","p","o">>
\* any(kw in content for kw in keywords)
AnyIn(keywords, content) == \E i \in 1..Len(keywords) : Contains(keywords[i], content)

\* LlmService._determine_type
_determine_type(content) ==
    IF AnyIn(<<s_bug, s_error, s_broken, s_crash, <<"f","a","i","l">>>>, content) THEN s_bug
    ELSE IF AnyIn(<<s_feature, s_enhancement, <<"r","e","q","u","e","s","t">>, <<"a","d","d">>>>, content) THEN s_feature
    ELSE IF AnyIn(<<<<"d","o","c">>, s_typo, <<"r","e","a","d","m","e">>, s_documentation>>, content) THEN s_documentation
    ELSE IF AnyIn(<<s_question, <<"h","o","w"," ","t","o">>, <<"h","e","l","p">>, <<"?">>>>, content) THEN s_question
    ELSE s_bug

\* any(keyword.lower() in content for keyword in keywords)
AnyLowerIn(keywords, content) ==
    \E i \in 1..Len(keywords) : Contains(Lower(keywords[i]), content)

\* LlmService._determine_priority: the tiers P1..P4 of the rules are
\* scanned; p0_keywords and default_priority are not read.
_determine_priority(content, rules) ==
    IF AnyLowerIn(rules.p1_keywords, content) THEN s_P1
    ELSE IF AnyLowerIn(rules.p2_keywords, content) THEN s_P2
    ELSE IF AnyLowerIn(rules.p3_keywords, content) THEN s_P3
    ELSE IF AnyLowerIn(rules.p4_keywords, content) THEN s_P4
    ELSE s_P3

\* f"{title} {body}".lower()
Combined(title, body) == Lower(title \o <<" ">> \o body)

\* The answers that make a dict access on the parsed JSON raise
\* AttributeError, which `except json.JSONDecodeError` does not catch.
ParsedRaises(answer) == answer.kind = "nonobject"

\* LlmService.classify_issue raises on this answer.
classify_issue_raises(title, body, rules, answer) == ParsedRaises(answer)

classify_issue_confident(title, body, rules, answer) ==
    IF answer.kind = "object"
    THEN [type |-> Get(answer, "type", s_bug),
          priority |-> Get(answer, "priority", s_P3),
          confidence |-> GetConfidence(answer, Num(DefaultConfidence)),
          path |-> "ai"]
    ELSE [type |-> _determine_type(Combined(title, body)),
          priority |-> _determine_priority(Combined(title, body), rules),
          confidence |-> Num(DefaultConfidence),
          path |-> "fallback"]

\* LlmService.classify_issue, when it returns.
classify_issue(title, body, rules, answer) ==
    IF answer.kind = "object"
    THEN [type |-> Get(answer, "type", s_bug),
          priority |-> Get(answer, "priority", s_P3),
          confidence |-> GetConfidence(answer, Num(DefaultConfidence)),
          path |-> "ai"]
    ELSE CHOOSE fallback \in
             {[type |-> _determine_type(content),
               priority |-> _determine_priority(content, rules),
               confidence |-> Num(FallbackConfidence),
               path |-> "fallback"] : content \in {Combined(title, body)}} : TRUE

\* LlmService.is_copilot_fixable raises on this answer: the flag is read
\* before the model is called.
is_copilot_fixable_raises(config, answer) == config.enabled /\ ParsedRaises(answer)

is_copilot_fixable_unguarded(title, body, config, answer) ==
    IF answer.kind = "object"
    THEN [is_copilot_fixable |-> answer.has_is_copilot_fixable /\ answer.is_copilot_fixable,
          reasoning |-> "LLM assessment completed",
          called |-> TRUE]
    ELSE [is_copilot_fixable |->
              \E i \in 1..Len(config.criteria) :
                  Contains(Lower(config.criteria[i]), Combined(title, body)),
          reasoning |-> "Keyword matching",
          called |-> TRUE]

\* LlmService.is_copilot_fixable, when it returns; called tells whether
\* _call_llm was called.
is_copilot_fixable(title, body, config, answer) ==
    IF ~config.enabled
    THEN [is_copilot_fixable |-> FALSE,
          reasoning |-> "Copilot coding agent is disabled in configuration",
          called |-> FALSE]
    ELSE IF answer.kind = "object"
    THEN [is_copilot_fixable |-> answer.has_is_copilot_fixable /\ answer.is_copilot_fixable,
          reasoning |-> "LLM assessment completed",
          called |-> TRUE]
    ELSE IF \E i \in 1..Len(config.criteria) :
                Contains(Lower(config.criteria[i]), Combined(title, body))
    THEN [is_copilot_fixable |-> TRUE,
          reasoning |-> "Matched keyword criterion",
          called |-> TRUE]
    ELSE [is_copilot_fixable |-> FALSE,
          reasoning |-> "No matching criteria found via keyword matching (LLM unavailable)",
          called |-> TRUE]

\* LlmService.generate_fix_suggestions reads parsed.get outside any handler
\* of AttributeError.
generate_fix_suggestions_raises(answer) == ParsedRaises(answer)

\* ------------------------------------------------------ Assignee Selector
s_lead == <<"l","e","a","d">>
s_backend == <<"b","a","c","k","e","n","d">>
s_full_stack == <<"f","u","l","l"," ","s","t","a","c","k">>
s_developer == <<"d","e","v","e","l","o","p","e","r">>
\* role_keywords.get(issue_type.lower(), ["developer"])
RoleKeywords(issue_type) ==
    LET t == Lower(issue_type)
    IN  IF t = s_bug THEN <<s_backend, s_full_stack, s_developer>>
        ELSE IF t = s_feature THEN <<s_full_stack, s_developer, s_backend, <<"f","r","o","n","t","e","n","d">>>>
        ELSE IF t = s_documentation THEN <<s_developer, <<"w","r","i","t","e","r">>>>
        ELSE IF t = s_question THEN <<s_lead, <<"s","e","n","i","o","r">>>>
        ELSE <<s_developer>>

RECURSIVE FirstByKeyword(_, _)
\* for keyword in keywords: for member in team_members: if keyword in role
FirstByKeyword(team_members, keywords) ==
    IF keywords = <<>> THEN <<>>
    ELSE LET hit == FirstOf(SelectSeq(team_members,
                        LAMBDA member : Contains(Head(keywords), Lower(member.role))))
         IN  IF hit # <<>> THEN hit ELSE FirstByKeyword(team_members, Tail(keywords))

\* LlmService._fallback_assignee_selection, for a non-empty roster.
_fallback_assignee_selection(issue_type, priority, team_members) ==
    LET lead == IF priority \in {s_P1, s_P2}
                THEN FirstOf(SelectSeq(team_members,
                         LAMBDA member : Contains(s_lead, Lower(member.role))))
                ELSE <<>>
        byRole == FirstByKeyword(team_members, RoleKeywords(issue_type))
    IN  IF lead # <<>>
        THEN [assignee |-> lead[1].login,
              rationale |-> "High priority issue assigned to tech lead"]
        ELSE IF byRole # <<>>
        THEN [assignee |-> byRole[1].login,
              rationale |-> "Assigned to role based on issue type"]
        ELSE [assignee |-> team_members[1].login,
              rationale |-> "Default assignment - no specific expertise match found"]

\* LlmService.select_assignee raises on this answer: parsed.get on a JSON
\* value that is no object, or assignee.lower() on a JSON null.
select_assignee_raises(team_members, answer) ==
    /\ team_members # <<>>
    /\ \/ ParsedRaises(answer)
       \/ answer.kind = "object" /\ answer.assignee = None

\* LlmService.select_assignee, when it returns.
select_assignee(issue_type, priority, team_members, answer) ==
    IF team_members = <<>>
    THEN [assignee |-> None, rationale |-> "No team members available for assignment"]
    ELSE LET assignee == Get(answer, "assignee", <<>>)
             byLogin == IF answer.kind = "object"
                        THEN FirstOf(SelectSeq(team_members,
                                 LAMBDA member : Lower(member.login) = Lower(assignee)))
                        ELSE <<>>
             byName == IF answer.kind = "object"
                       THEN FirstOf(SelectSeq(team_members,
                                LAMBDA member : Lower(member.name) = Lower(assignee)))
                       ELSE <<>>
         IN  IF byLogin # <<>>
             THEN [assignee |-> byLogin[1].login,
                   rationale |-> "Selected by AI based on expertise match"]
             ELSE IF byName # <<>>
             THEN [assignee |-> byName[1].login,
                   rationale |-> "Selected by AI based on expertise match"]
             ELSE _fallback_assignee_selection(issue_type, priority, team_members)

\* config.team_members if hasattr(config, 'team_members') else []
TeamMembersOf(config) == IF config.is_none THEN <<>> ELSE config.team_members

\* _select_human_assignee raises when select_assignee does.
_select_human_assignee_raises(config, answer) ==
    select_assignee_raises(TeamMembersOf(config), answer)

_select_human_assignee_default(config, issue_type, priority, answer) ==
    [assignee |-> s_copilot, rationale |-> "Default assignment"]

\* _select_human_assignee, when it returns: (assignee, rationale).
_select_human_assignee(config, issue_type, priority, answer) ==
    LET team_members == TeamMembersOf(config)
        result == select_assignee(issue_type, priority, team_members, answer)
        first_login == team_members[1].login
    IN  IF team_members = <<>>
        THEN [assignee |-> None, rationale |-> "No team members configured"]
        ELSE IF result.assignee # None /\ result.assignee # <<>>
        THEN [assignee |-> result.assignee, rationale |-> result.rationale]
        ELSE IF priority \in {<<"P","0">>, s_P1} /\ first_login # <<>>
        THEN [assignee |-> first_login,
              rationale |-> "High priority issue assigned to primary engineer"]
        ELSE [assignee |-> first_login, rationale |-> "Default assignment"]

\* ------------------------------------------------------------ environment
\* Label names of the modelled repositories.
l_bug == s_bug
l_P1 == s_P1
l_P2 == s_P2
l_critical == s_critical
l_copilot_fixable == s_copilot_fixable

\* The label lists a repository may have, in the tracker's order: one with
\* priority labels and the fixability marker, one with neither.
RepoLabelLists ==
    {<<l_bug, l_P1, l_P2, l_copilot_fixable>>, <<<<"d","e","b","u","g">>, l_bug, l_critical>>}

s_alice == <<"a","l","i","c","e">>
s_bob == <<"b","o","b">>
s_Backend_Developer ==
    <<"B","a","c","k","e","n","d"," ","D","e","v","e","l","o","p","e","r">>

\* config/team-members.json: no member, or two.
Rosters ==
    {<<>>,
     <<[name |-> <<"A","l","i","c","e"," ","A">>, login |-> s_alice, role |-> <<"T","e","c","h"," ","L","e","a","d">>],
       [name |-> <<"B","o","b"," ","B">>, login |-> s_bob, role |-> s_Backend_Developer]>>}

\* PriorityRules as ConfigParser._parse_priority_rules and the dataclass
\* defaults build them.
DefaultRules ==
    [p0_keywords |-> <<s_crash, <<"o","u","t","a","g","e">>, <<"s","e","c","u","r","i","t","y">>, <<"d","a","t","a"," ","l","o","s","s">>>>,
     p1_keywords |-> <<s_bug, s_broken, s_error>>,
     p2_keywords |-> <<s_enhancement, s_feature>>,
     p3_keywords |-> <<s_minor, s_low>>,
     p4_keywords |-> <<<<"t","r","i","v","i","a","l">>, <<"n","i","c","e","-","t","o","-","h","a","v","e">>>>,
     default_priority |-> s_P3]

DefaultCriteria == <<s_typo, <<"s","i","m","p","l","e"," ","f","i","x">>, s_documentation, <<"g","o","o","d"," ","f","i","r","s","t"," ","i","s","s","u","e">>>>

\* What ConfigParser.get_default_config returns: a TeamConfig, or None when
\* parse_file cannot read ../sample-config.yml.
NoConfig == [is_none |-> TRUE]

Configs ==
    {c \in {[is_none |-> FALSE,
             priority_rules |-> DefaultRules,
             copilot_fixable |-> [enabled |-> e, criteria |-> DefaultCriteria],
             team_members |-> r] : e \in BOOLEAN, r \in Rosters} :
        c.copilot_fixable.enabled \/ c.team_members # <<>>}

\* ConfigParser.parse_file: the parsed content of the file, or None when the
\* file cannot be opened or parsed.
parse_file(readable, parsed) == IF readable THEN parsed ELSE NoConfig

\* ConfigParser.get_default_config: parse_file("../sample-config.yml");
\* readable tells whether that file is there, parsed what it holds.
get_default_config(readable, parsed) == parse_file(readable, parsed)

\* Issue titles; bodies are empty.
TitleOf(n) == IF n % 2 = 1 THEN <<"A","p","p"," ","c","r","a","s","h">> ELSE <<"t","y","p","o">>

\* 8760 hours and the default since_hours.
YearHours == 8760
DefaultSinceHours == 24

\* The states an issue can be in when a run starts: its labels are labels
\* of the repository, it has assignees or not, it was updated an hour or
\* 9000 hours ago, and it may be a pull request.
IssueStates(labels) ==
    {[labels |-> ls, assignees |-> as, comments |-> 0, age |-> 1, pull_request |-> FALSE] :
        ls \in {{}, {l_P2}, {l_P1, l_P2}, {l_critical}} \cap SUBSET Range(labels),
        as \in {{}, {s_alice}}}
    \cup {[labels |-> {}, assignees |-> {}, comments |-> 0, age |-> 9000, pull_request |-> FALSE],
          [labels |-> {}, assignees |-> {}, comments |-> 0, age |-> 1, pull_request |-> TRUE]}

\* A new issue: recent, no labels, no assignee.
PlainIssueStates(labels) ==
    {i \in IssueStates(labels) :
        i.age = 1 /\ ~i.pull_request /\ i.labels = {} /\ i.assignees = {}}

\* An issue with a priority label and an assignee.
FullyTriaged(issue) ==
    (\E l \in issue.labels : IsPriorityLabel(l)) /\ issue.assignees # {}

\* The tracker's issues when a run starts: the first in any state and the
\* others new, or all of them labelled and assigned.
TrackerStates(labels) ==
    {iss \in [1..NumIssues -> IssueStates(labels)] :
        \/ \A n \in 2..NumIssues : iss[n] \in PlainIssueStates(labels)
        \/ \A n \in 1..NumIssues : FullyTriaged(iss[n]) /\ iss[n] = iss[1]}

\* ---------------------------------------------------------------- state
VARIABLES
    config,             \* what get_default_config returns
    repoLabels,         \* the tracker's label list of the repository
    issues,             \* the tracker's issues: number -> state
    labelCache,         \* lru_cache of get_repository_labels for (owner, repo)
    pc,                 \* position of triage_issues
    apply_changes,      \* parameter
    mode,               \* "explicit", "url" or "default"
    issue_numbers,      \* parameter (explicit mode)
    target_issue_number,\* the number parsed from issue_url, or 0
    untriaged_issues,   \* the candidates: issue snapshots
    idx,                \* position of the for loop
    results,            \* the results list
    cur,                \* the last processed issue, in full
    report,             \* the returned dict
    error,              \* the exception that left triage_issues
    now,                \* datetime.now(timezone.utc), in seconds
    _cache              \* the module's _cache dict: key -> (value, expiry)

vars == <<config, repoLabels, issues, labelCache, pc, apply_changes, mode,
          issue_numbers, target_issue_number, untriaged_issues, idx, results,
          cur, report, error, now, _cache>>

IssueNumbers == 1..NumIssues

\* The keys of _cache that are followed: a key of the caller's and the key
\* of get_issue for issue 1.  A key that is not in the dict has NoEntry.
NoEntry == [present |-> FALSE]
EmptyCache == [test_key |-> NoEntry, issue_1 |-> NoEntry]

NoCache == <<<<"NoCache">>>>
NoError == [exception |-> "", raised_by |-> ""]
NoReport == [processed_count |-> -1, returned |-> FALSE]
NoCur == [processed |-> FALSE]

\* The issue as the tracker's API returns it.
Snapshot(n) ==
    [number |-> n, title |-> TitleOf(n), body |-> <<>>,
     labels |-> issues[n].labels, assignees |-> issues[n].assignees,
     pull_request |-> issues[n].pull_request]

Init ==
    /\ config \in {get_default_config(readable, parsed) :
                      readable \in BOOLEAN, parsed \in Configs}
    /\ repoLabels \in RepoLabelLists
    /\ issues \in TrackerStates(repoLabels)
    /\ labelCache = NoCache
    /\ pc = "start"
    /\ apply_changes = FALSE
    /\ mode = "default"
    /\ issue_numbers = <<>>
    /\ target_issue_number = 0
    /\ untriaged_issues = <<>>
    /\ idx = 0
    /\ results = <<>>
    /\ cur = NoCur
    /\ report = NoReport
    /\ error = NoError
    /\ now = 0
    /\ _cache = EmptyCache

\* ------------------------------------------------------ tracker reads
\* GitHubService.get_repository_labels behind functools.lru_cache: a cached
\* result is served; otherwise the tracker is read, and GithubException
\* (ok = FALSE) gives {}.  The result is the label list; lru_cache stores
\* whatever the method returns.
get_repository_labels(cache, ok) ==
    IF cache # NoCache THEN cache
    ELSE IF ok THEN repoLabels ELSE <<>>

CanFetch_never(n) == FALSE

\* GitHubService.get_issue: None for a number the tracker does not have.
CanFetch(n) == n \in IssueNumbers

RECURSIVE FetchAll(_)
\* for issue_num in issue_numbers: the issues get_issue returns.
FetchAll(numbers) ==
    IF numbers = <<>> THEN <<>>
    ELSE (IF CanFetch(Head(numbers)) THEN <<Snapshot(Head(numbers))>> ELSE <<>>)
         \o FetchAll(Tail(numbers))

RECURSIVE NewestFirst(_)
\* sort="created", direction="desc": a later issue has a higher number.
NewestFirst(S) ==
    IF S = {} THEN <<>>
    ELSE LET m == CHOOSE x \in S : \A y \in S : x >= y
         IN  <<m>> \o NewestFirst(S \ {m})

\* repository.get_issues(state="open", since=since, sort="created",
\* direction="desc"): the open issues updated within since_hours, pull
\* requests included.
ListedIssues(since_hours) ==
    LET listed == {n \in IssueNumbers : issues[n].age <= since_hours}
        order == NewestFirst(listed)
    IN  [i \in 1..Len(order) |-> Snapshot(order[i])]

\* GitHubService.get_new_untriaged_issues; listOk is whether the listing
\* succeeds, labels the result of get_repository_labels.
get_new_untriaged_issues(since_hours, listOk, labels) ==
    IF listOk THEN filter_untriaged_issues(ListedIssues(since_hours), labels)
    ELSE <<>>

\* ------------------------------------------------------- triage_issues
Raise(exception, raised_by) ==
    /\ pc' = "raised"
    /\ error' = [exception |-> exception, raised_by |-> raised_by]

\* Lines 528-579: the zero-candidate return, or the way into the loop.
\* since_time is bound in the else branch of the mode test only, so the
\* message of the zero-candidate result raises in explicit mode.
AfterSelection(m, candidates, cache, labelsOk) ==
    /\ untriaged_issues' = candidates
    /\ IF candidates = <<>>
       THEN /\ labelCache' = cache
            /\ idx' = 0
            /\ IF m = "explicit"
               THEN /\ Raise("UnboundLocalError", "triage_issues: since_time")
                    /\ UNCHANGED report
               ELSE /\ pc' = "done"
                    /\ report' = [processed_count |-> 0, returned |-> TRUE]
                    /\ UNCHANGED error
       ELSE /\ labelCache' = get_repository_labels(cache, labelsOk)
            /\ idx' = 1
            /\ pc' = "process"
            /\ UNCHANGED <<report, error>>

\* triage_issues(issue_numbers = numbers, apply_changes = apply)
StartExplicit ==
    /\ pc = "start"
    /\ \E apply \in BOOLEAN, labelsOk \in BOOLEAN,
          numbers \in UNION {[1..k -> 1..(NumIssues + 1)] : k \in 1..MaxList} :
          /\ apply_changes' = apply
          /\ mode' = "explicit"
          /\ issue_numbers' = numbers
          /\ AfterSelection("explicit", FetchAll(numbers), labelCache, labelsOk)
    /\ UNCHANGED <<config, repoLabels, issues, target_issue_number, results, cur, now, _cache>>

\* triage_issues(issue_url = ..., apply_changes = apply); target = 0 stands
\* for a URL that _parse_issue_url does not match.
StartUrl ==
    /\ pc = "start"
    /\ \E apply \in BOOLEAN, labelsOk \in BOOLEAN, listOk \in BOOLEAN,
          target \in 0..(NumIssues + 1) :
          /\ apply_changes' = apply
          /\ mode' = "url"
          /\ target_issue_number' = target
          /\ IF target = 0
             THEN /\ Raise("ValueError", "triage_issues: issue_url")
                  /\ UNCHANGED <<labelCache, untriaged_issues, idx, report>>
             ELSE LET cache == IF listOk THEN get_repository_labels(labelCache, labelsOk)
                               ELSE labelCache
                      found == get_new_untriaged_issues(YearHours, listOk, cache)
                      mine == SelectSeq(found, LAMBDA issue : issue.number = target)
                      candidates == IF mine # <<>> THEN mine
                                    ELSE IF CanFetch(target) THEN <<Snapshot(target)>>
                                    ELSE <<>>
                  IN  AfterSelection("url", candidates, cache, labelsOk)
    /\ UNCHANGED <<config, repoLabels, issues, issue_numbers, results, cur, now, _cache>>

\* triage_issues(since_hours = 24, apply_changes = apply)
StartDefault ==
    /\ pc = "start"
    /\ \E apply \in BOOLEAN, labelsOk \in BOOLEAN, listOk \in BOOLEAN :
          /\ apply_changes' = apply
          /\ mode' = "default"
          /\ LET cache == IF listOk THEN get_repository_labels(labelCache, labelsOk)
                          ELSE labelCache
             IN  AfterSelection("default",
                                get_new_untriaged_issues(DefaultSinceHours, listOk, cache),
                                cache, labelsOk)
    /\ UNCHANGED <<config, repoLabels, issues, issue_numbers, target_issue_number,
                   results, cur, now, _cache>>

\* The answers of the language model that the loop draws from.
NoAnswer(kind) ==
    [kind |-> kind, type |-> Absent, priority |-> Absent,
     confidence |-> AbsentConfidence, has_is_copilot_fixable |-> FALSE,
     is_copilot_fixable |-> FALSE, assignee |-> Absent]

s_BOB == <<"B","O","B">>
Unparsed == NoAnswer("text")
NonObject == NoAnswer("nonobject")
EmptyObject == NoAnswer("object")
Classified(type, priority, confidence) ==
    [NoAnswer("object") EXCEPT !.type = type, !.priority = priority,
                               !.confidence = confidence]
Fixable == [NoAnswer("object") EXCEPT !.has_is_copilot_fixable = TRUE,
                                      !.is_copilot_fixable = TRUE]
Assignee(login) == [NoAnswer("object") EXCEPT !.assignee = login]

\* What the model answers to the four prompts about one issue (classify,
\* fixability, fix suggestions, assignee): no model at all, text that is no
\* JSON, JSON that is no object, and objects with and without the fields
\* the service reads, one of them with the priority "high" and one with
\* the priority P0 and an assignee who is not on the roster.
LlmAnswers ==
    LET sure == Classified(s_bug, s_P1, Num(90))
    IN  {<<NoAnswer("none"), NoAnswer("none"), NoAnswer("none"), NoAnswer("none")>>,
         <<Unparsed, Unparsed, Unparsed, Unparsed>>,
         <<NonObject, EmptyObject, EmptyObject, EmptyObject>>,
         <<EmptyObject, EmptyObject, EmptyObject, EmptyObject>>,
         <<sure, Fixable, EmptyObject, Assignee(s_BOB)>>,
         <<sure, EmptyObject, EmptyObject, Assignee(s_BOB)>>,
         <<sure, EmptyObject, EmptyObject, Assignee(<<"c","a","r","o","l">>)>>,
         <<sure, EmptyObject, EmptyObject, Assignee(None)>>,
         <<Classified(s_feature, s_P2, Num(50)), EmptyObject, EmptyObject, Assignee(s_BOB)>>,
         <<Classified(s_bug, s_P1, NotANumber), EmptyObject, EmptyObject, Assignee(s_BOB)>>,
         <<Classified(s_bug, s_high, Num(90)), EmptyObject, EmptyObject, Assignee(s_BOB)>>,
         <<Classified(s_bug, <<"P","0">>, Num(90)), EmptyObject, EmptyObject,
           Assignee(<<"c","a","r","o","l">>)>>,
         <<sure, NonObject, EmptyObject, EmptyObject>>,
         <<sure, EmptyObject, NonObject, EmptyObject>>,
         <<sure, EmptyObject, EmptyObject, NonObject>>}

\* Lines 606-664 of the loop body: the classification object, validated,
\* and its plan, from what the model service returned.
Plan(issue, cfg, repo_labels, classification, copilot_result, human) ==
    LET fixable == copilot_result.is_copilot_fixable
        issue_classification ==
            [issue_number |-> issue.number,
             issue_type |-> classification.type,
             priority |-> classification.priority,
             suggested_labels |->
                 _map_to_repository_labels(repo_labels, classification.type,
                                           classification.priority),
             suggested_assignee |-> IF fixable THEN s_copilot ELSE human.assignee,
             is_copilot_fixable |-> fixable,
             assignment_rationale |->
                 IF fixable THEN "Issue is suitable for Copilot automated fix"
                 ELSE human.rationale,
             confidence |-> classification.confidence,
             path |-> classification.path,
             copilot_reasoning |-> copilot_result.reasoning,
             llm_called_for_fixable |-> copilot_result.called]
    IN  {[raised_by |-> "",
          mapped |-> issue_classification.suggested_labels,
          classification |-> validated.classification,
          validation |-> validated.validation,
          tool_calls |-> _generate_tool_calls(validated.classification)] :
         validated \in {_validate_classification(repo_labels, issue_classification)}}

\* Lines 584-664 of the loop body for one issue: the first call that raises,
\* or the classification as validated, the validation result and the plan.
\* The result is a set of one element.
Decide(issue, cfg, repo_labels, ca, fa, ga, aa) ==
    IF cfg.is_none
    THEN {[raised_by |-> "triage_issues: config.priority_rules"]}
    ELSE IF classify_issue_raises(issue.title, issue.body, cfg.priority_rules, ca)
    THEN {[raised_by |-> "classify_issue"]}
    ELSE IF is_copilot_fixable_raises(cfg.copilot_fixable, fa)
    THEN {[raised_by |-> "is_copilot_fixable"]}
    ELSE IF generate_fix_suggestions_raises(ga)
    THEN {[raised_by |-> "generate_fix_suggestions"]}
    ELSE UNION {
        IF ~copilot_result.is_copilot_fixable /\ _select_human_assignee_raises(cfg, aa)
        THEN {[raised_by |-> "select_assignee"]}
        ELSE IF MapRaises(repo_labels, classification.type, classification.priority)
        THEN {[raised_by |-> "_map_to_repository_labels"]}
        ELSE UNION {Plan(issue, cfg, repo_labels, classification, copilot_result, human) :
                    human \in {_select_human_assignee(cfg, classification.type,
                                                      classification.priority, aa)}} :
        classification \in {classify_issue(issue.title, issue.body, cfg.priority_rules, ca)},
        copilot_result \in {is_copilot_fixable(issue.title, issue.body,
                                               cfg.copilot_fixable, fa)}}

_apply_triage_changes_unconfirmed(repo_labels, issue, classification) ==
    LET labels == classification.suggested_labels
                  \o (IF classification.is_copilot_fixable
                      THEN <<s_copilot_fixable>> ELSE <<>>)
    IN  {[issue |-> o.issue, results |-> o.results, calls |-> o.calls,
          sent |-> [labels |-> labels,
                    assignee |-> classification.suggested_assignee,
                    comment |-> ApplyComment]] :
         o \in {r \in apply_triage_result(issue, labels,
                                           classification.suggested_assignee,
                                           ApplyComment, TRUE) : r.faults <= MaxFaults}}

\* _apply_triage_changes: the outcomes of apply_triage_result on the
\* tracker's issue, with what was sent.
_apply_triage_changes(repo_labels, issue, classification) ==
    LET labels == classification.suggested_labels
                  \o (IF classification.is_copilot_fixable
                         /\ s_copilot_fixable \in Range(repo_labels)
                      THEN <<s_copilot_fixable>> ELSE <<>>)
    IN  {[issue |-> o.issue, results |-> o.results, calls |-> o.calls,
          sent |-> [labels |-> labels,
                    assignee |-> classification.suggested_assignee,
                    comment |-> ApplyComment]] :
         o \in {r \in apply_triage_result(issue, labels,
                                           classification.suggested_assignee,
                                           ApplyComment, TRUE) : r.faults <= MaxFaults}}

NoApplication == [applied |-> FALSE]

ToolNames(tool_calls) == [i \in 1..Len(tool_calls) |-> tool_calls[i].tool]

ShouldApply_requested(apply, validation) == apply

\* if apply_changes and validation_result["valid"]
ShouldApply(apply, validation) == apply /\ validation.valid

\* One iteration of `for issue in untriaged_issues`.
ProcessIssue ==
    /\ pc = "process"
    /\ idx <= Len(untriaged_issues)
    /\ \E answers \in LlmAnswers :
          LET issue == untriaged_issues[idx]
              repo_labels == get_repository_labels(labelCache, TRUE)
          IN  \E d \in Decide(issue, config, repo_labels, answers[1], answers[2],
                               answers[3], answers[4]) :
              IF d.raised_by # ""
              THEN /\ Raise("AttributeError", d.raised_by)
                   /\ UNCHANGED <<issues, idx, results, cur>>
              ELSE IF ShouldApply(apply_changes, d.validation)
              THEN \E o \in _apply_triage_changes(repo_labels, issues[issue.number],
                                                  d.classification) :
                      /\ issues' = [issues EXCEPT ![issue.number] = o.issue]
                      /\ cur' = [processed |-> TRUE, issue_number |-> issue.number,
                                 mapped |-> d.mapped,
                                 classification |-> d.classification,
                                 validation |-> d.validation,
                                 tool_calls |-> d.tool_calls,
                                 application |-> [applied |-> TRUE, sent |-> o.sent,
                                                  calls |-> o.calls, results |-> o.results]]
                      /\ results' = Append(results,
                             [issue_number |-> issue.number,
                              valid |-> d.validation.valid,
                              tools |-> ToolNames(d.tool_calls),
                              applied |-> apply_changes /\ d.validation.valid,
                              application_result |-> [is_none |-> FALSE, results |-> o.results],
                              calls |-> o.calls])
                      /\ idx' = idx + 1
                      /\ UNCHANGED <<pc, error>>
              ELSE /\ cur' = [processed |-> TRUE, issue_number |-> issue.number,
                              mapped |-> d.mapped,
                              classification |-> d.classification,
                              validation |-> d.validation,
                              tool_calls |-> d.tool_calls,
                              application |-> NoApplication]
                   /\ results' = Append(results,
                          [issue_number |-> issue.number,
                           valid |-> d.validation.valid,
                           tools |-> ToolNames(d.tool_calls),
                           applied |-> apply_changes /\ d.validation.valid,
                           application_result |-> [is_none |-> TRUE],
                           calls |-> {}])
                   /\ idx' = idx + 1
                   /\ UNCHANGED <<issues, pc, error>>
    /\ UNCHANGED <<config, repoLabels, labelCache, apply_changes, mode, issue_numbers,
                   target_issue_number, untriaged_issues, report, now, _cache>>

\* Lines 679-719: the loop is over and the report is returned.
FinishRun ==
    /\ pc = "process"
    /\ idx > Len(untriaged_issues)
    /\ pc' = "done"
    /\ report' = [processed_count |-> Len(results), returned |-> TRUE]
    /\ UNCHANGED <<config, repoLabels, issues, labelCache, apply_changes, mode,
                   issue_numbers, target_issue_number, untriaged_issues, idx, results,
                   cur, error, now, _cache>>

Next == StartExplicit \/ StartUrl \/ StartDefault \/ ProcessIssue \/ FinishRun

Spec == Init /\ [][Next]_vars


\* ------------------------------------------- the validator on any input
\* Labels a classification may propose: labels of either repository and the
\* generic labels of the mapper.
ProposableLabels ==
    {l_bug, l_P1, l_critical, l_copilot_fixable, s_type_ \o s_bug, s_priority_ \o s_P1}

\* Lists of at most MaxList elements of S.
Lists(S) == UNION {[1..k -> S] : k \in 0..MaxList}

s_at_bob == <<"@">> \o s_bob

\* What is constant while one service function is called on its own.
Standalone ==
    /\ config = NoConfig
    /\ pc = "call"
    /\ apply_changes = FALSE
    /\ mode = "default"
    /\ issue_numbers = <<>>
    /\ target_issue_number = 0
    /\ untriaged_issues = <<>>
    /\ idx = 0
    /\ results = <<>>
    /\ cur = NoCur
    /\ report = NoReport
    /\ error = NoError
    /\ now = 0
    /\ _cache = EmptyCache

PlainIssue == [labels |-> {}, assignees |-> {}, comments |-> 0, age |-> 1,
               pull_request |-> FALSE]

\* The service holds the label list of the repository, or {} after a
\* failed read, or its read of the labels throws.
InitValidate ==
    /\ Standalone
    /\ repoLabels \in RepoLabelLists
    /\ labelCache \in {repoLabels, <<>>, Unreadable}
    /\ issues = [n \in IssueNumbers |-> PlainIssue]

\* _validate_classification(github_service, owner, repo, classification)
CallValidate ==
    /\ pc = "call"
    /\ \E labels \in Lists(ProposableLabels),
          confidence \in {Num(90), Num(ConfidenceThreshold), Num(FallbackConfidence),
                          NotANumber},
          assignee \in {None, s_bob, s_at_bob} :
          LET classification ==
                  [issue_number |-> 1, suggested_labels |-> labels,
                   suggested_assignee |-> assignee, confidence |-> confidence,
                   is_copilot_fixable |-> FALSE]
          IN  \E validated \in {_validate_classification(labelCache, classification)} :
                  cur' = [processed |-> FALSE, given |-> classification,
                          classification |-> validated.classification,
                          validation |-> validated.validation]
    /\ pc' = "returned"
    /\ UNCHANGED <<config, repoLabels, issues, labelCache, apply_changes, mode,
                   issue_numbers, target_issue_number, untriaged_issues, idx, results,
                   report, error, now, _cache>>

NextValidate == CallValidate

SpecValidate == InitValidate /\ [][NextValidate]_vars

\* ---------------------------------- apply_triage_result on any input
\* Labels an issue may carry and a label list may hold.
s_priority_high == s_priority_ \o s_high
AppliedLabels == {l_bug, l_P1, l_P2, s_priority_high}

InitApply ==
    /\ Standalone
    /\ repoLabels = <<l_bug, l_P1, l_P2, s_priority_high>>
    /\ labelCache = NoCache
    /\ \E ls \in SUBSET AppliedLabels, as \in {{}, {s_alice}} :
          issues = [n \in IssueNumbers |->
                       IF n = 1 THEN [PlainIssue EXCEPT !.labels = ls, !.assignees = as]
                       ELSE PlainIssue]

\* github_service.apply_triage_result(owner, repo, 1, labels, assignee, comment)
\* with any pattern of failing tracker calls.
CallApplyTriageResult ==
    /\ pc = "call"
    /\ \E labels \in Lists(AppliedLabels), assignee \in {None, s_bob},
          comment \in {None, ApplyComment} :
          \E o \in apply_triage_result(issues[1], labels, assignee, comment, TRUE) :
              /\ issues' = [issues EXCEPT ![1] = o.issue]
              /\ cur' = [processed |-> FALSE, before |-> issues[1],
                         sent |-> [labels |-> labels, assignee |-> assignee,
                                   comment |-> comment],
                         results |-> o.results, calls |-> o.calls, faults |-> o.faults]
    /\ pc' = "returned"
    /\ UNCHANGED <<config, repoLabels, labelCache, apply_changes, mode, issue_numbers,
                   target_issue_number, untriaged_issues, idx, results, report, error, now, _cache>>

NextApply == CallApplyTriageResult

SpecApply == InitApply /\ [][NextApply]_vars


\* --------------------------------------------- the mapper on any input
\* Label names a repository may have: some equal a search term up to case,
\* some only contain one.
l_Feature == <<"F","e","a","t","u","r","e">>
l_enhancements == s_enhancement \o <<"s">>
MapperLabels ==
    {l_bug, <<"d","e","b","u","g">>, s_type_ \o s_bug, l_P1, l_critical, s_priority_high,
     l_Feature, l_enhancements}

\* The keys of the dict get_repository_labels returns: distinct names, in
\* the tracker's order.
MapperLabelLists ==
    {q \in Lists(MapperLabels) : \A i, j \in 1..Len(q) : q[i] = q[j] => i = j}

\* Issue types and priorities a classification may carry.
MapperTypes == {s_bug, s_feature, l_Feature, s_question}
MapperPriorities == {<<"P","0">>, s_P1, s_P2, s_high}

InitMapper ==
    /\ Standalone
    /\ repoLabels \in MapperLabelLists
    /\ labelCache = NoCache
    /\ issues = [n \in IssueNumbers |-> PlainIssue]

\* _map_to_repository_labels(github_service, owner, repo, issue_type, priority)
CallMapToRepositoryLabels ==
    /\ pc = "call"
    /\ \E issue_type \in MapperTypes, priority \in MapperPriorities :
          LET repo_labels == get_repository_labels(labelCache, TRUE)
          IN  cur' = [processed |-> FALSE, op |-> "map",
                      issue_type |-> issue_type, priority |-> priority,
                      search_terms |-> <<>>,
                      returned |-> _map_to_repository_labels(repo_labels, issue_type,
                                                             priority)]
    /\ pc' = "returned"
    /\ UNCHANGED <<config, repoLabels, issues, labelCache, apply_changes, mode,
                   issue_numbers, target_issue_number, untriaged_issues, idx, results,
                   report, error, now, _cache>>

\* _find_matching_labels(repo_labels, search_terms) with the search terms
\* the mapper builds.
CallFindMatchingLabels ==
    /\ pc = "call"
    /\ \E search_terms \in {TypeSearchTerms(t) : t \in MapperTypes}
                           \cup {PrioritySearchTerms(p) : p \in MapperPriorities} :
          cur' = [processed |-> FALSE, op |-> "find",
                  issue_type |-> <<>>, priority |-> <<>>,
                  search_terms |-> search_terms,
                  returned |-> _find_matching_labels(repoLabels, search_terms)]
    /\ pc' = "returned"
    /\ UNCHANGED <<config, repoLabels, issues, labelCache, apply_changes, mode,
                   issue_numbers, target_issue_number, untriaged_issues, idx, results,
                   report, error, now, _cache>>

SpecMapper == InitMapper /\ [][CallMapToRepositoryLabels \/ CallFindMatchingLabels]_vars


\* ------------------------------------------------- the in-memory cache
CACHE_TTL_SECONDS == 900

\* The instants at which the clock is read: around the start and around the
\* default time-to-live.
Instants ==
    {0, 1, 2, CACHE_TTL_SECONDS - 1, CACHE_TTL_SECONDS, CACHE_TTL_SECONDS + 1}

Live_through_expiry(entry, t) == entry.present /\ t <= entry.expiry

\* key in _cache and datetime.now(timezone.utc) < expiry
Live(entry, t) == entry.present /\ t < entry.expiry

\* _set_cached(key, value, ttl) at time t
_set_cached(cache, key, value, ttl, t) ==
    [cache EXCEPT ![key] = [present |-> TRUE, value |-> value, expiry |-> t + ttl]]

\* _get_cached(key) at time t: what it returns (hit = FALSE for None) and
\* the dict afterwards, without the entry when it had expired.
_get_cached(cache, key, t) ==
    IF Live(cache[key], t)
    THEN [hit |-> TRUE, value |-> cache[key].value, cache |-> cache]
    ELSE [hit |-> FALSE, value |-> None, cache |-> [cache EXCEPT ![key] = NoEntry]]

\* GitHubService.get_issue(owner, repo, 1) at time t; ok tells whether the
\* tracker's read succeeds.  read tells whether the tracker was read.
get_issue(cache, t, ok) ==
    LET cached == _get_cached(cache, "issue_1", t)
    IN  IF cached.hit
        THEN [found |-> TRUE, issue |-> cached.value, read |-> FALSE, cache |-> cached.cache]
        ELSE IF ok
        THEN [found |-> TRUE, issue |-> issues[1], read |-> TRUE,
              cache |-> _set_cached(cached.cache, "issue_1", issues[1],
                                    CACHE_TTL_SECONDS, t)]
        ELSE [found |-> FALSE, issue |-> None, read |-> TRUE, cache |-> cached.cache]

\* cur is the last call and, kept from earlier calls, the last
\* _set_cached on test_key and the last read of issue 1 that was cached.
InitCache ==
    /\ config = NoConfig
    /\ repoLabels \in RepoLabelLists
    /\ issues \in [IssueNumbers -> PlainIssueStates(repoLabels)]
    /\ labelCache = NoCache
    /\ pc = "call"
    /\ apply_changes = FALSE
    /\ mode = "default"
    /\ issue_numbers = <<>>
    /\ target_issue_number = 0
    /\ untriaged_issues = <<>>
    /\ idx = 0
    /\ results = <<>>
    /\ cur = [processed |-> FALSE, op |-> "none", hit |-> FALSE, read |-> FALSE,
              last_set |-> NoEntry, last_read |-> NoEntry]
    /\ report = NoReport
    /\ error = NoError
    /\ now = 0
    /\ _cache = EmptyCache

\* _set_cached("test_key", value, ttl)
SetCached ==
    /\ pc = "call"
    /\ \E value \in {<<"a">>, <<"b">>}, ttl \in {0, 1, CACHE_TTL_SECONDS} :
          /\ _cache' = _set_cached(_cache, "test_key", value, ttl, now)
          /\ cur' = [cur EXCEPT !.op = "set", !.hit = FALSE, !.read = FALSE,
                                !.last_set = [present |-> TRUE, value |-> value,
                                              ttl |-> ttl, at |-> now]]
    /\ UNCHANGED <<config, repoLabels, issues, labelCache, pc, apply_changes, mode,
                   issue_numbers, target_issue_number, untriaged_issues, idx, results,
                   report, error, now>>

\* _get_cached("test_key")
GetCached ==
    /\ pc = "call"
    /\ \E got \in {_get_cached(_cache, "test_key", now)} :
          /\ _cache' = got.cache
          /\ cur' = [cur EXCEPT !.op = "get", !.hit = got.hit, !.read = FALSE]
    /\ UNCHANGED <<config, repoLabels, issues, labelCache, pc, apply_changes, mode,
                   issue_numbers, target_issue_number, untriaged_issues, idx, results,
                   report, error, now>>

\* github_service.get_issue(owner, repo, 1)
GetIssue ==
    /\ pc = "call"
    /\ \E ok \in BOOLEAN :
          \E got \in {get_issue(_cache, now, ok)} :
              /\ _cache' = got.cache
              /\ cur' = [cur EXCEPT
                            !.op = "get_issue", !.hit = got.found, !.read = got.read,
                            !.last_read = IF got.read /\ got.found
                                          THEN [present |-> TRUE, at |-> now]
                                          ELSE cur.last_read]
    /\ UNCHANGED <<config, repoLabels, issues, labelCache, pc, apply_changes, mode,
                   issue_numbers, target_issue_number, untriaged_issues, idx, results,
                   report, error, now>>

\* The clock advances to a later instant.
Tick ==
    /\ pc = "call"
    /\ \E t \in Instants : t > now /\ now' = t
    /\ UNCHANGED <<config, repoLabels, issues, labelCache, pc, apply_changes, mode,
                   issue_numbers, target_issue_number, untriaged_issues, idx, results,
                   cur, report, error, _cache>>

SpecCache == InitCache /\ [][SetCached \/ GetCached \/ GetIssue \/ Tick]_vars

\* github_service.get_repository_labels(owner, repo) on one service object,
\* at time now: functools.lru_cache keeps no time, so a stored result, the
\* {} of a failed read included, is served whatever the clock says.  read
\* tells whether the tracker was read, last_read when it last was.
GetRepositoryLabels ==
    /\ pc = "call"
    /\ \E ok \in BOOLEAN :
          /\ labelCache' = get_repository_labels(labelCache, ok)
          /\ cur' = [cur EXCEPT
                        !.op = "get_repository_labels",
                        !.hit = labelCache # NoCache,
                        !.read = labelCache = NoCache,
                        !.last_read = IF labelCache = NoCache
                                      THEN [present |-> TRUE, at |-> now]
                                      ELSE cur.last_read]
    /\ UNCHANGED <<config, repoLabels, issues, pc, apply_changes, mode,
                   issue_numbers, target_issue_number, untriaged_issues, idx, results,
                   report, error, now, _cache>>

SpecLabels == InitCache /\ [][GetRepositoryLabels \/ Tick]_vars


\* ------------------------------------------------------------ properties
PriorityLabelsOn(issue) == {l \in issue.labels : IsPriorityLabel(l)}

CandidateNumbers == {untriaged_issues[i].number : i \in DOMAIN untriaged_issues}

ProcessedNumbers == [i \in 1..Len(results) |-> results[i].issue_number]

PlannedTools == Range(ToolNames(cur.tool_calls))

\* C1: every step that records a result entry runs the apply step only if
\* apply_changes is requested and the validation of that issue is valid;
\* otherwise the tracker's issues are left as they were and no tracker
\* method is called, and in both cases the plan is in the result entry.
C1_ApplyOnlyIfRequestedAndValid ==
    [][results' # results =>
          /\ cur'.application.applied => (apply_changes /\ cur'.validation.valid)
          /\ ~(apply_changes /\ cur'.validation.valid) =>
                 /\ ~cur'.application.applied
                 /\ issues' = issues
                 /\ results'[Len(results')].calls = {}
          /\ cur'.tool_calls # <<>>
          /\ results'[Len(results')].tools = ToolNames(cur'.tool_calls)]_vars

\* Apply was requested, the validation was not valid, and the issue was
\* recorded with its plan and not applied.
C1_RequestedButInvalid ==
    /\ cur.processed
    /\ apply_changes
    /\ ~cur.validation.valid
    /\ ~cur.application.applied
    /\ cur.tool_calls # <<>>

\* C2: whenever _validate_classification returns valid = true, every label
\* of suggested_labels as the validator leaves it is a label of the
\* repository.
C2_ValidOnlyWithRepositoryLabels ==
    pc = "returned" =>
        (cur.validation.valid =>
            Range(cur.classification.suggested_labels) \subseteq Range(repoLabels))

\* A confident classification proposed a label the repository does not
\* have, and the validator answered valid = false.
C2_AbsentLabelRejected ==
    /\ pc = "returned"
    /\ cur.given.confidence = Num(90)
    /\ \E l \in Range(cur.given.suggested_labels) : l \notin Range(repoLabels)
    /\ ~cur.validation.valid

LastPriorityLabel(labels) ==
    LET priority_labels == SelectSeq(labels, IsPriorityLabel)
    IN  priority_labels[Len(priority_labels)]

\* C3 (as amended): an issue that carried at most one priority label before
\* apply_triage_result carries at most one after it, under any pattern of
\* failing tracker calls; and when the label list holds a priority label and
\* every label call succeeds, the issue carries exactly that priority label
\* (the last one of the list), whatever it carried before.
C3_PriorityExclusivityPreserved ==
    pc = "returned" =>
        /\ Cardinality(PriorityLabelsOn(cur.before)) <= 1
               => Cardinality(PriorityLabelsOn(issues[1])) <= 1
        /\ (SelectSeq(cur.sent.labels, IsPriorityLabel) # <<>> /\ cur.results.labels)
               => PriorityLabelsOn(issues[1]) = {LastPriorityLabel(cur.sent.labels)}

\* The issue carried two priority labels, the list held a priority label,
\* the label calls succeeded and one priority label is left.
C3_TwoReplacedByOne ==
    /\ pc = "returned"
    /\ Cardinality(PriorityLabelsOn(cur.before)) = 2
    /\ SelectSeq(cur.sent.labels, IsPriorityLabel) # <<>>
    /\ cur.results.labels
    /\ Cardinality(PriorityLabelsOn(issues[1])) = 1

\* C3 as stated: after apply_triage_result, from any labels on the issue
\* and under any pattern of failures, at most one priority label.
C3_AtMostOneFromAnyLabels ==
    pc = "returned" => Cardinality(PriorityLabelsOn(issues[1])) <= 1

\* C4: in default mode an issue that has a priority label and an assignee
\* is not among the candidates the selection makes, and no step of the run
\* changes it.
C4_FullyTriagedNeverSelected ==
    [][mode' = "default" =>
          \A n \in IssueNumbers :
              FullyTriaged(issues[n]) =>
                  /\ issues'[n] = issues[n]
                  /\ pc = "start" => n \notin CandidateNumbers']_vars

\* A default run whose listing and label read succeeded found every issue
\* fully triaged and returned with zero candidates.
C4_SecondRunSelectsNothing ==
    /\ mode = "default"
    /\ pc = "done"
    /\ labelCache = repoLabels
    /\ \A n \in IssueNumbers : FullyTriaged(issues[n])
    /\ untriaged_issues = <<>>
    /\ report.processed_count = 0

\* C5 as stated: when a run in explicit mode with a configuration has
\* ended, the processed issues are the listed issues the tracker can fetch,
\* in the order of the list.
C5_ListedIssuesProcessed ==
    (mode = "explicit" /\ ~config.is_none /\ pc \in {"done", "raised"}) =>
        ProcessedNumbers = FilterSeq(issue_numbers, IssueNumbers)

\* C6 as stated: classify_issue and is_copilot_fixable never raise.
C6_ModelCallsNeverRaise ==
    error.raised_by \notin {"classify_issue", "is_copilot_fixable"}

\* C7 as stated: a run with a configuration that has selected candidates
\* does not raise, and when it has returned there is one result entry per
\* candidate, in candidate order, and processed_count is their number.
C7_RunCompletes ==
    (~config.is_none /\ untriaged_issues # <<>>) =>
        /\ pc # "raised"
        /\ pc = "done" =>
               /\ report.returned
               /\ report.processed_count = Len(untriaged_issues)
               /\ ProcessedNumbers =
                      [i \in 1..Len(untriaged_issues) |-> untriaged_issues[i].number]

\* C8 as stated: a run whose selection found no candidate (the URL, if any,
\* was parseable) returns a report with processed_count = 0 and no results.
C8_ZeroCandidatesReturnReport ==
    (pc # "start" /\ untriaged_issues = <<>> /\ error.exception # "ValueError") =>
        /\ pc = "done"
        /\ report.returned
        /\ report.processed_count = 0
        /\ results = <<>>

C10_EmptyRosterNoAssignee ==
    (cur.processed /\ ~cur.classification.is_copilot_fixable) =>
        /\ config.team_members = <<>> =>
               /\ cur.classification.suggested_assignee = None
               /\ cur.classification.assignment_rationale = "No team members configured"
               /\ "github_assign_issue" \notin PlannedTools
        /\ cur.classification.suggested_assignee = None => config.team_members = <<>>

\* An issue not assessed copilot-fixable was processed with an empty roster.
C10_EmptyRosterProcessed ==
    /\ cur.processed
    /\ config.team_members = <<>>
    /\ ~cur.classification.is_copilot_fixable
    /\ cur.classification.suggested_assignee = None
    /\ "github_add_comment" \in PlannedTools

\* C10 as stated: with an empty roster the assignee of every processed
\* issue is None and its plan has no github_assign_issue.
C10_EmptyRosterAlwaysNone ==
    (cur.processed /\ config.team_members = <<>>) =>
        /\ cur.classification.suggested_assignee = None
        /\ "github_assign_issue" \notin PlannedTools

\* C11: every label the apply step sends to the tracker is a label of the
\* repository, and the marker copilot-fixable is sent only when the
\* repository has it.
C11_SentLabelsExist ==
    (cur.processed /\ cur.application.applied) =>
        /\ Range(cur.application.sent.labels) \subseteq Range(repoLabels)
        /\ s_copilot_fixable \in Range(cur.application.sent.labels)
               => (cur.classification.is_copilot_fixable
                   /\ s_copilot_fixable \in Range(repoLabels))

\* A copilot-fixable issue was applied in a repository without the marker
\* label: the plan names the marker, and the labels sent do not hold it.
C11_MarkerLeftOut ==
    /\ cur.processed
    /\ cur.application.applied
    /\ cur.classification.is_copilot_fixable
    /\ s_copilot_fixable \notin Range(repoLabels)
    /\ cur.application.sent.labels # <<>>
    /\ s_copilot_fixable \notin Range(cur.application.sent.labels)
    /\ s_copilot_fixable \in Range(cur.tool_calls[1].labels)

\* The generic labels type:<issue_type>, priority:<priority> of the mapper.
GenericLabels(classification) ==
    <<s_type_ \o classification.issue_type, s_priority_ \o classification.priority>>

\* No label of the list is named P1 or contains "priority".
NoPriorityLabelFor(repo_labels) ==
    \A l \in Range(repo_labels) :
        Lower(l) # Lower(s_P1) /\ ~Contains(<<"p","r","i","o","r","i","t","y">>, Lower(l))

\* C12 (as amended): the mapper returns the generic labels type:<type> and
\* priority:<priority> exactly when the service holds no label of the
\* repository at all; the validator then answers valid = false and strips
\* them, and the apply step does not run.  With a non-empty label list
\* every mapped label is a label of the repository, also when none is named
\* P1 or contains "priority".
C12_GenericLabelsOnlyWithoutLabels ==
    cur.processed =>
        /\ labelCache = <<>> =>
               /\ cur.mapped = GenericLabels(cur.classification)
               /\ ~cur.validation.valid
               /\ cur.classification.suggested_labels = <<>>
               /\ ~cur.application.applied
               /\ \A i \in 1..Len(cur.tool_calls) :
                      cur.tool_calls[i].tool = "github_apply_labels" =>
                          ~\E l \in Range(cur.tool_calls[i].labels) : IsPriorityLabel(l)
        /\ labelCache # <<>> => Range(cur.mapped) \subseteq Range(labelCache)

\* The label read failed, an issue classified P1 with apply requested got
\* priority:P1 from the mapper, and the validator rejected and stripped it.
C12_GenericLabelStripped ==
    /\ cur.processed
    /\ apply_changes
    /\ labelCache = <<>>
    /\ cur.classification.priority = s_P1
    /\ s_priority_ \o s_P1 \in Range(cur.mapped)
    /\ ~cur.validation.valid
    /\ cur.classification.suggested_labels = <<>>
    /\ ~cur.application.applied

\* C12 as stated: whenever the label list has no label named P1 and none
\* containing "priority", an issue classified P1 gets priority:P1 from the
\* mapper and is found invalid.
C12_GenericLabelWithoutPriorityLabel ==
    (cur.processed /\ cur.classification.priority = s_P1
       /\ NoPriorityLabelFor(labelCache)) =>
        /\ s_priority_ \o s_P1 \in Range(cur.mapped)
        /\ ~cur.validation.valid

\* C13: with config.enabled = false, is_copilot_fixable answers false with
\* the fixed reasoning and without calling the model, whatever the title
\* holds and whatever the model would have answered; it does not raise.
C13_DisabledFlagNoModelCall ==
    /\ (cur.processed /\ ~config.copilot_fixable.enabled) =>
           /\ ~cur.classification.is_copilot_fixable
           /\ cur.classification.copilot_reasoning
                  = "Copilot coding agent is disabled in configuration"
           /\ ~cur.classification.llm_called_for_fixable
    /\ error.raised_by = "is_copilot_fixable" => config.copilot_fixable.enabled

\* With the flag disabled, an issue whose title holds a fixability
\* criterion ("typo") was processed and is not copilot-fixable.
C13_DisabledWithMatchingTitle ==
    /\ cur.processed
    /\ ~config.copilot_fixable.enabled
    /\ AnyLowerIn(config.copilot_fixable.criteria,
                  Combined(TitleOf(cur.issue_number), <<>>))
    /\ ~cur.classification.is_copilot_fixable
    /\ ~cur.classification.llm_called_for_fixable

\* C14: _validate_classification returns on every input; when its try
\* block throws (the label validation, or the comparison of a confidence
\* that is no number) the result has an entry in errors and valid = false,
\* and a result with an entry in errors is never valid.
C14_ValidationNeverRaises ==
    /\ pc # "raised"
    /\ pc = "returned" =>
           /\ (labelCache = Unreadable \/ ~cur.given.confidence.num) =>
                  (cur.validation.errors # <<>> /\ ~cur.validation.valid)
           /\ cur.validation.errors # <<>> => ~cur.validation.valid

\* The label validation threw on a confident classification, and the
\* validator returned the error and valid = false.
C14_LabelValidationThrew ==
    /\ pc = "returned"
    /\ labelCache = Unreadable
    /\ cur.given.confidence = Num(90)
    /\ cur.validation.errors # <<>>
    /\ ~cur.validation.valid

\* C15: in single-issue-URL mode, once the selection is made, the
\* candidates are at most one issue, no candidate has another number than
\* the one of the URL, and the issue of the URL is the candidate whenever
\* the tracker has it, whether or not the filtered listing of the last
\* 8760 hours holds it.
C15_UrlModeSelectsTheTarget ==
    (mode = "url" /\ pc # "start" /\ error.exception # "ValueError") =>
        /\ Len(untriaged_issues) <= 1
        /\ CandidateNumbers \subseteq {target_issue_number}
        /\ target_issue_number \in IssueNumbers =>
               CandidateNumbers = {target_issue_number}

\* The issue of the URL was last updated more than 8760 hours ago, so the
\* listing does not hold it, and it is the one candidate.
C15_TargetFetchedDirectly ==
    /\ mode = "url"
    /\ pc = "process"
    /\ target_issue_number \in IssueNumbers
    /\ issues[target_issue_number].age > YearHours
    /\ Len(untriaged_issues) = 1
    /\ untriaged_issues[1].number = target_issue_number

\* needs_labeling and needs_assignment as the specification defines them.
NeedsLabeling(issue) == ~\E l \in issue.labels : IsTriageLabel(l)
NeedsAssignment(issue) == issue.assignees = {}

\* The selection of a default run whose listing succeeded has just been made.
DefaultSelectionMade == pc = "start" /\ mode' = "default" /\ labelCache' # NoCache

C17_DefaultConfigNeverNone ==
    pc # "start" =>
        /\ ~config.is_none
        /\ error.raised_by # "triage_issues: config.priority_rules"

\* C18: _get_cached(key) returns the value of the last _set_cached(key,
\* value, ttl) at every time before the time of the set plus ttl, and None
\* from that time on, when the entry is also removed; a key never set gives
\* None.  get_issue reads the tracker exactly when no read of the last
\* CACHE_TTL_SECONDS seconds is cached.
C18_CacheExpiry ==
    [][/\ GetCached =>
            /\ cur'.hit <=> (cur.last_set.present
                               /\ now < cur.last_set.at + cur.last_set.ttl)
            /\ cur'.hit => (_cache'.test_key.present
                             /\ _cache'.test_key.value = cur.last_set.value)
            /\ ~cur'.hit => ~_cache'.test_key.present
       /\ GetIssue =>
            (cur'.read <=> ~(cur.last_read.present
                              /\ now < cur.last_read.at + CACHE_TTL_SECONDS))]_vars

\* A value set with a positive ttl was asked for at the instant of its
\* expiry: the answer was None and the entry is gone.
C18_MissAtExpiry ==
    /\ cur.op = "get"
    /\ ~cur.hit
    /\ cur.last_set.present
    /\ cur.last_set.ttl > 0
    /\ now = cur.last_set.at + cur.last_set.ttl
    /\ ~_cache.test_key.present

\* C19 as stated: the classification of every processed issue has a type
\* among bug, feature, documentation, question, a priority among P0..P4 and
\* a confidence that is a number from 0 to 1, so no other priority reaches
\* the mapper.
C19_ClassificationInDomain ==
    cur.processed =>
        /\ cur.classification.issue_type
               \in {s_bug, s_feature, s_documentation, s_question}
        /\ cur.classification.priority \in {<<"P","0">>, s_P1, s_P2, s_P3, s_P4}
        /\ cur.classification.confidence.num
        /\ cur.classification.confidence.v \in 0..100

\* The priority the tier scan P0, P1, P2, P3, P4 gives: the first tier one
\* of whose keywords occurs in the content, else the configured default.
TierScanPriority(content, rules) ==
    IF AnyLowerIn(rules.p0_keywords, content) THEN <<"P","0">>
    ELSE IF AnyLowerIn(rules.p1_keywords, content) THEN s_P1
    ELSE IF AnyLowerIn(rules.p2_keywords, content) THEN s_P2
    ELSE IF AnyLowerIn(rules.p3_keywords, content) THEN s_P3
    ELSE IF AnyLowerIn(rules.p4_keywords, content) THEN s_P4
    ELSE rules.default_priority

\* C20 as stated: a classification made by the keyword fallback has the
\* priority of the first tier, scanning P0 to P4, with a keyword in the
\* lower-cased title and body, and the configured default priority when no
\* tier matches; a title with the P0 keyword "crash" gets P0 and type bug.
C20_FallbackPriorityScansFromP0 ==
    (cur.processed /\ cur.classification.path = "fallback") =>
        /\ cur.classification.priority =
               TierScanPriority(Combined(TitleOf(cur.issue_number), <<>>),
                                config.priority_rules)
        /\ Contains(s_crash, Combined(TitleOf(cur.issue_number), <<>>)) =>
               /\ cur.classification.priority = <<"P","0">>
               /\ cur.classification.issue_type = s_bug

\* C21 as stated: select_assignee never leaves by an exception, whatever
\* the model answers, and with a roster the assignee of an issue that is
\* not copilot-fixable is the login of a roster member.
C21_AssigneeMatchedOrFallback ==
    /\ error.raised_by # "select_assignee"
    /\ (cur.processed /\ ~cur.classification.is_copilot_fixable
            /\ config.team_members # <<>>) =>
           \E i \in 1..Len(config.team_members) :
               cur.classification.suggested_assignee = config.team_members[i].login

\* The rationales of the three branches of the assignee fallback.
FallbackRationales ==
    {"High priority issue assigned to tech lead",
     "Assigned to role based on issue type",
     "Default assignment - no specific expertise match found"}

\* The member the rule order (a), (b), (c) assigns: a lead for P0 and P1,
\* else the first member by the role keywords of the type, else the first.
RuleOrderAssignee(issue_type, priority, team_members) ==
    LET lead == IF priority \in {<<"P","0">>, s_P1}
                THEN FirstOf(SelectSeq(team_members,
                         LAMBDA member : Contains(s_lead, Lower(member.role))))
                ELSE <<>>
        byRole == FirstByKeyword(team_members, RoleKeywords(issue_type))
    IN  IF lead # <<>> THEN lead[1].login
        ELSE IF byRole # <<>> THEN byRole[1].login
        ELSE team_members[1].login

\* C22 as stated: when the assignee fallback decides for a non-empty roster,
\* the assignee is the lead for priority P0 or P1, else the first member
\* whose role has a keyword of the issue type, else the first member, and
\* the rationale is not empty.
C22_FallbackRuleOrder ==
    (cur.processed /\ ~cur.classification.is_copilot_fixable
        /\ cur.classification.assignment_rationale \in FallbackRationales) =>
        /\ cur.classification.suggested_assignee =
               RuleOrderAssignee(cur.classification.issue_type,
                                 cur.classification.priority, config.team_members)
        /\ cur.classification.assignment_rationale # ""

\* Some label of the list, lower-cased, contains one of the terms.
LabelWithTerm(label, search_terms) ==
    \E i \in 1..Len(search_terms) : Contains(search_terms[i], Lower(label))

\* C23: for a repository with labels, _map_to_repository_labels returns at
\* most one label found by the type's search terms followed by at most one
\* label found by the priority's search terms, and every returned label is
\* a label of the repository.
C23_AtMostOneTypeThenOnePriority ==
    (pc = "returned" /\ cur.op = "map" /\ repoLabels # <<>>) =>
        /\ Len(cur.returned) <= 2
        /\ Range(cur.returned) \subseteq Range(repoLabels)
        /\ \E type_part \in Lists(Range(repoLabels)), priority_part \in Lists(Range(repoLabels)) :
              /\ Len(type_part) <= 1 /\ Len(priority_part) <= 1
              /\ cur.returned = type_part \o priority_part
              /\ \A l \in Range(type_part) :
                     LabelWithTerm(l, TypeSearchTerms(cur.issue_type))
              /\ \A l \in Range(priority_part) :
                     LabelWithTerm(l, PrioritySearchTerms(cur.priority))

\* The mapper returned a type label and a priority label of the repository,
\* the priority label found through a synonym of P1.
C23_TypeAndPriorityMapped ==
    /\ pc = "returned" /\ cur.op = "map"
    /\ repoLabels = <<l_critical, l_Feature>>
    /\ cur.issue_type = s_feature /\ cur.priority = s_P1
    /\ cur.returned = <<l_Feature, l_critical>>

\* Positions of the repository labels that contain, and that equal, the
\* k-th search term of the last _find_matching_labels call, up to case.
LabelsContaining(k) ==
    {i \in 1..Len(repoLabels) : Contains(cur.search_terms[k], Lower(repoLabels[i]))}
LabelsEqual(k) ==
    {i \in 1..Len(repoLabels) : Lower(repoLabels[i]) = cur.search_terms[k]}

\* Some repository label equals some search term of the last call.
SomeLabelEqualsSomeTerm ==
    \E k \in 1..Len(cur.search_terms) : LabelsEqual(k) # {}

\* C24 (as amended): _find_matching_labels decides at the first search term
\* that some repository label contains: it returns the labels equal to that
\* term up to case when there are any, else the labels that contain it, in
\* the repository's order; later terms are not looked at, and with no such
\* term the result is empty.
C24_ExactPreferredWithinFirstMatchingTerm ==
    (pc = "returned" /\ cur.op = "find") =>
        LET matching == {k \in 1..Len(cur.search_terms) : LabelsContaining(k) # {}}
        IN  IF matching = {} THEN cur.returned = <<>>
            ELSE LET first == CHOOSE k \in matching : \A j \in matching : k <= j
                     at == IF LabelsEqual(first) # {} THEN LabelsEqual(first)
                           ELSE LabelsContaining(first)
                 IN  cur.returned = SelectSeq(repoLabels,
                                        LAMBDA l : \E i \in at : repoLabels[i] = l)

\* A label equal to the search term and a label that only contains it: the
\* equal one alone is returned.
C24_ExactBeatsPartial ==
    /\ pc = "returned" /\ cur.op = "find"
    /\ repoLabels = <<<<"d","e","b","u","g">>, l_bug>>
    /\ cur.search_terms = TypeSearchTerms(s_bug)
    /\ cur.returned = <<l_bug>>

\* C24 as stated: whenever some repository label equals some search term up
\* to case, a label equal to a search term is returned, and a label that
\* only contains a search term is returned only when no repository label
\* equals any search term.
C24_ExactPreferredOverAllTerms ==
    (pc = "returned" /\ cur.op = "find") =>
        /\ SomeLabelEqualsSomeTerm =>
               \E l \in Range(cur.returned) : Lower(l) \in Range(cur.search_terms)
        /\ (\E l \in Range(cur.returned) : Lower(l) \notin Range(cur.search_terms))
               => ~SomeLabelEqualsSomeTerm

\* C25: the plan of every processed issue is a label-apply call iff the
\* labels to apply (mapped labels and the fixability marker) are not empty,
\* then an assignment call iff an assignee is present, the automated-fix
\* agent included, then exactly one comment call, which is last; and a step
\* that builds the plan without applying it leaves the tracker's issues as
\* they were.
C25_PlanOrderAndContent ==
    [][results' # results =>
          LET c == cur'.classification
              has_labels == c.suggested_labels # <<>> \/ c.is_copilot_fixable
              has_assignee == c.suggested_assignee # None /\ c.suggested_assignee # <<>>
          IN  /\ ToolNames(cur'.tool_calls) =
                     (IF has_labels THEN <<"github_apply_labels">> ELSE <<>>)
                     \o (IF has_assignee THEN <<"github_assign_issue">> ELSE <<>>)
                     \o <<"github_add_comment">>
              /\ c.is_copilot_fixable =>
                     /\ has_assignee
                     /\ cur'.tool_calls[2].assignee = s_copilot
              /\ ~cur'.application.applied => issues' = issues]_vars

\* A copilot-fixable issue was planned with the three calls in order, the
\* assignment to the automated-fix agent, and nothing was applied.
C25_AgentAssignmentPlanned ==
    /\ cur.processed
    /\ cur.classification.is_copilot_fixable
    /\ ToolNames(cur.tool_calls) =
           <<"github_apply_labels", "github_assign_issue", "github_add_comment">>
    /\ cur.tool_calls[2].assignee = s_copilot
    /\ ~cur.application.applied
    /\ results[Len(results)].calls = {}

\* C26: every step that processes an issue classified by the keyword
\* fallback records a result entry with confidence 0.5, a validation that
\* is not valid and applied = false, calls no tracker method and leaves the
\* tracker's issues as they were, whether apply_changes is requested or not.
C26_FallbackNeverApplied ==
    [][(results' # results /\ cur'.classification.path = "fallback") =>
          /\ cur'.classification.confidence = Num(FallbackConfidence)
          /\ FallbackConfidence < ConfidenceThreshold
          /\ ~cur'.validation.valid
          /\ \E i \in 1..Len(cur'.validation.warnings) :
                 cur'.validation.warnings[i] = "Low confidence"
          /\ ~cur'.application.applied
          /\ issues' = issues
          /\ Len(results') = Len(results) + 1
          /\ results'[Len(results')].issue_number = cur'.issue_number
          /\ ~results'[Len(results')].applied
          /\ results'[Len(results')].calls = {}]_vars

\* Apply was requested, the fallback classified the issue with labels of
\* the repository, the low confidence alone made the validation fail, and
\* the run ended with an entry for every candidate, none applied.
C26_RequestedButLowConfidence ==
    /\ pc = "done"
    /\ apply_changes
    /\ cur.processed
    /\ cur.classification.path = "fallback"
    /\ cur.validation.warnings = <<"Low confidence">>
    /\ ~cur.application.applied
    /\ Len(results) = Len(untriaged_issues)
    /\ \A i \in 1..Len(results) : ~results[i].applied

\* The tracker's issue n as the selection of the next default run tests it.
NextRunKeeps(n) ==
    filter_keeps([labels |-> issues[n].labels, assignees |-> issues[n].assignees,
                  pull_request |-> issues[n].pull_request], repoLabels)

\* C27 as stated: after a default-mode run applied a valid classification
\* to an issue and every tracker write succeeded, the issue needs neither
\* labeling nor assignment, so the next default-mode run does not select it.
C27_AppliedIssueNotSelectedAgain ==
    (mode = "default" /\ cur.processed /\ cur.application.applied
        /\ cur.application.results.labels /\ cur.application.results.assignee
        /\ cur.application.results.comment) =>
        /\ ~get_triage_status(issues[cur.issue_number], repoLabels).needs_labeling
        /\ ~get_triage_status(issues[cur.issue_number], repoLabels).needs_assignment
        /\ ~NextRunKeeps(cur.issue_number)

\* C28 as stated: when the label list of apply_triage_result holds a
\* priority label and other labels, apply_labels is called with the other
\* labels whether or not set_priority_label succeeded.
C28_OtherLabelsSentAfterPriorityFailure ==
    (pc = "returned"
        /\ SelectSeq(cur.sent.labels, IsPriorityLabel) # <<>>
        /\ SelectSeq(cur.sent.labels, LAMBDA l : ~IsPriorityLabel(l)) # <<>>) =>
        "apply_labels" \in cur.calls

\* C29 as stated: a call of get_repository_labels made when the cache
\* time-to-live has passed since the tracker's labels were last read reads
\* the tracker again, whether the stored result is a label set or the empty
\* result of a failed read.
C29_LabelsNotServedPastTtl ==
    [][GetRepositoryLabels =>
          ((cur.last_read.present /\ now >= cur.last_read.at + CACHE_TTL_SECONDS)
              => cur'.read)]_vars

\* The calls of the last plan to one tool.
PlannedCalls(tool) == SelectSeq(cur.tool_calls, LAMBDA call : call.tool = tool)

\* The labels and the assignee the apply step sent are those of the plan.
PlanLabelsSent ==
    IF PlannedCalls("github_apply_labels") = <<>> THEN cur.application.sent.labels = <<>>
    ELSE Range(PlannedCalls("github_apply_labels")[1].labels)
             = Range(cur.application.sent.labels)
PlanAssigneeSent ==
    IF PlannedCalls("github_assign_issue") = <<>>
    THEN cur.application.sent.assignee \in {None, <<>>}
    ELSE PlannedCalls("github_assign_issue")[1].assignee = cur.application.sent.assignee

\* C30 as stated: for every issue on which the apply step ran, the label
\* set and the assignee it sent to the tracker are those of the plan's
\* github_apply_labels and github_assign_issue calls, and the comment it
\* posted is the comment of the plan's github_add_comment call.
C30_PlanAndApplyAgree ==
    (cur.processed /\ cur.application.applied) =>
        /\ PlanLabelsSent
        /\ PlanAssigneeSent
        /\ PlannedCalls("github_add_comment")[1].comment = cur.application.sent.comment

=============================================================================
